---- MODULE Spec2Model ----
(***************************************************************************)
(* Model of YouTubeSummarizerPlugin (src/src/main.ts): the single-flight   *)
(* summarization pipeline and its three triggers.                          *)
(*                                                                         *)
(* JavaScript runs one task at a time.  A step of this model is one        *)
(* synchronous segment of the code, from the point where a task resumes    *)
(* to the next await.  A continuation that resumes after an await of an    *)
(* already settled promise is a microtask: it is kept in microq, and no    *)
(* host event (command, paste, timer, metadata change, network or vault    *)
(* completion, settings save) is taken while microq is non-empty.          *)
(***************************************************************************)
EXTENDS Integers, Sequences, FiniteSets

\* Bound: the number of requests alive at once (calls of summarizeVideo or
\* handleFileChange that have not finished, pending paste timers, open modals).
MaxRuns == 2

\* Bound: automatic runs start only while fewer than this many summaries have
\* been appended to the document.
MaxAppends == 1

\* The documents of the vault (TFile handles) and the kind of the source field
\* of their front-matter: f1 is a web clip of a video, f2 is not.
Files == {"f1", "f2"}
DocSource == [f \in Files |-> IF f = "f1" THEN "youtube" ELSE "other"]

\* The models a user can select; the provider instance is named by the model
\* it was constructed from.
Models == {"m1", "m2"}

\* Text is a sequence of pieces; NL is the line feed, U+1F464 and U+1F517
\* stand for the two pictographs of l.311.  A fetch returns the transcript
\* of the referenced video; the summaries a provider can return are a single
\* line or two lines.
NL == "\n"
Titles == {"title"}
Transcripts == { [title |-> t, author |-> "author", channelUrl |-> "channelUrl"] : t \in Titles }
NoTranscript == [title |-> "none", author |-> "none", channelUrl |-> "none"]
Summaries == { <<"summary">>, <<"summary", NL, "conclusion">> }
ThumbnailUrl == "thumbnailUrl"
Url == "url"

NoModel == "none"
NoProvider == "null"
NoFile == "nofile"

VARIABLES
    loaded,        \* "new" after construction, "ready" after onload, "failed" if onload threw
    settings,      \* this.settings: [selected, hasKey]
    provider,      \* this.provider: NoProvider or the model it was constructed from
    isProcessing,  \* this.isProcessing (the ProcessingLock)
    runs,          \* per slot: a call of processVideoSummarization whose caller has not
                   \* resumed yet, or Free; of a run: the trigger kind, the file
                   \* (automatic runs), the position, the result, the pipeline steps
                   \* made, whether it ended by throwing, its failure notices, the
                   \* provider checked at l.192 and the one invoked at l.216
    conts,         \* per file: the handleFileChange calls suspended at vault.append
                   \* (l.266) and at processFrontMatter (l.267)
    microq,        \* slots whose caller continuation is queued as a microtask
    timers,        \* pending setTimeout callbacks of handlePaste, in the order they
                   \* were set; of each, whether the lock was held when it was set
    modals,        \* open YouTubeURLModal dialogs
    docs,          \* per file: yt-summarized marker, number of appended summaries
    last           \* observer: what the last step did to the document or the user

vars == <<loaded, settings, provider, isProcessing, runs, conts, microq, timers,
          modals, docs, last>>

----------------------------------------------------------------------------
\* Settings store as read by the pipeline: getSelectedModel and the apiKey of
\* the selected model's provider.  The two switches getAutoSummarizeWebclips
\* and getAutoSummarizePastedUrls are read once each, on entry of their
\* handler (l.256, l.281), and the user may have saved either value before
\* any event: they are drawn when the handler runs (HandleFileChange,
\* HandlePaste) instead of being carried in the state.
SettingsSpace ==
    { s \in [selected : Models \cup {NoModel}, hasKey : BOOLEAN] :
        s.selected = NoModel => ~s.hasKey }

ConfigErrors == {"NoModelSelected", "MissingApiKey", "ProviderUninitialized"}
StepFailures == {"TranscriptFailure", "ProviderFailure", "Unexpected"}
Failures == ConfigErrors \cup StepFailures \cup {"AlreadyProcessing"}

Holding == {"acquired", "fetching", "summarizing"}

Pipeline == <<"fetch", "prompt", "provider", "format">>

Slots == 1..MaxRuns

Free ==
    [kind |-> "none", file |-> NoFile, pc |-> "free", outcome |-> "pending",
     trace |-> <<>>, threw |-> FALSE, failN |-> 0,
     chk |-> NoProvider, used |-> NoProvider,
     transcript |-> NoTranscript, content |-> <<>>]

NewRun(kind, file) == [Free EXCEPT !.kind = kind, !.file = file, !.pc = "acquired"]

Live == {r \in Slots : runs[r].pc # "free"}
Holders == {r \in Slots : runs[r].pc \in Holding}

\* No synchronous segment is in progress and the microtask queue is empty:
\* the host may dispatch the next event.
HostTurn == microq = <<>> /\ \A r \in Slots : runs[r].pc # "acquired"

RECURSIVE Sum(_, _)
Sum(f, S) == IF S = {} THEN 0
             ELSE LET x == CHOOSE y \in S : TRUE IN f[x] + Sum(f, S \ {x})

Suspended == Sum([f \in Files |-> conts[f].appending + conts[f].marking], Files)

CanStart == Cardinality(Live) + Suspended + Len(timers) + modals < MaxRuns

FreeSlot == CHOOSE r \in Slots : runs[r].pc = "free" /\ \A q \in Slots : q < r => runs[q].pc # "free"

----------------------------------------------------------------------------
\* Pure pieces of the code.

\* l.169: if (this.isProcessing) -> reject.
IdleCheckSkipped(lock) == FALSE
IsBusy(lock) == lock

\* l.169-172: the rejection returns before the try block is entered, so the
\* finally block does not run for it: the flag keeps its value.
LockAfterRejectReleased(lock) == FALSE
LockAfterReject(lock) == lock

\* l.234-237: finally { this.isProcessing = false } for every exit of the try block.
ReleaseOnSuccessOnly(outcome) == outcome # "Success"
ReleaseInCatchOnly(outcome) == outcome = "Success"
LockAfterExit(outcome) == FALSE

\* l.156 and l.265: if (content) -- the run returned a non-null document.
HasContentAlways(outcome) == TRUE
HasContent(outcome) == outcome = "Success"

\* l.177-195: the three precondition checks, in the code's order.
PreconditionNoProviderCheck(s, p) ==
    IF s.selected = NoModel THEN "NoModelSelected"
    ELSE IF ~s.hasKey THEN "MissingApiKey"
    ELSE "ok"
PreconditionNoKeyCheck(s, p) ==
    IF s.selected = NoModel THEN "NoModelSelected"
    ELSE IF p = NoProvider THEN "ProviderUninitialized"
    ELSE "ok"
Precondition(s, p) ==
    IF s.selected = NoModel THEN "NoModelSelected"
    ELSE IF ~s.hasKey THEN "MissingApiKey"
    ELSE IF p = NoProvider THEN "ProviderUninitialized"
    ELSE "ok"

\* l.82-85: the provider after initializeServices has read settings s; created
\* is whether ProvidersFactory.createProvider returned (it throws otherwise,
\* leaving this.provider as it was).
InitializeServices(p, s, created) ==
    IF s.selected # NoModel /\ created THEN s.selected ELSE p

\* Array.prototype.join (l.315): the parts with sep between every two.
RECURSIVE Join(_, _)
Join(parts, sep) ==
    IF Len(parts) = 0 THEN <<>>
    ELSE IF Len(parts) = 1 THEN parts[1]
    ELSE parts[1] \o sep \o Join(Tail(parts), sep)

\* l.301-316: generateSummary.
GenerateSummary(transcript, thumbnailUrl, url, summaryText) ==
    LET summaryParts ==
          << <<"# ", transcript.title, NL>>,
             <<"![Thumbnail](", thumbnailUrl, ")", NL>>,
             <<"U+1F464 [", transcript.author, "](", transcript.channelUrl, ")",
               "  U+1F517 [Watch video](", url, ")">>,
             summaryText >>
    IN Join(summaryParts, <<NL>>)

\* l.245-248: the yt-summarized marker of the file's cached front-matter.
NeverSummarized(f) == FALSE
IsAlreadySummarized(f) == docs[f].summarized

----------------------------------------------------------------------------
\* processVideoSummarization, l.167-238.

\* l.167-175: entry. Either the request is rejected (l.169-172) or the flag is
\* set (l.175) and the run goes on synchronously to the precondition checks.
StartRun(kind, file) ==
    LET r == FreeSlot IN
    IF IsBusy(isProcessing)
    THEN /\ runs' = [runs EXCEPT ![r] = [NewRun(kind, file) EXCEPT
                        !.pc = "returned", !.outcome = "AlreadyProcessing",
                        !.failN = 1]]
         /\ isProcessing' = LockAfterReject(isProcessing)
         /\ microq' = Append(microq, r)
    ELSE /\ runs' = [runs EXCEPT ![r] = NewRun(kind, file)]
         /\ isProcessing' = TRUE
         /\ microq' = microq

\* The failure notices a return from inside the try block shows: each failing
\* return is preceded by one Notice (l.180, 186, 193, 203, 218, 231), the
\* successful return of l.224 by none.
FailureNoticesRethrown(outcome) ==
    IF outcome = "Success" THEN 0
    ELSE IF outcome \in {"TranscriptFailure", "ProviderFailure"} THEN 2
    ELSE 1
FailureNotices(outcome) == IF outcome = "Success" THEN 0 ELSE 1

\* A return from inside the try block (l.181, 189, 194, 204, 220, 224, 233):
\* the failure notice if any, then the finally block, then the caller's
\* continuation is queued.
Exit(r, outcome) ==
    /\ runs' = [runs EXCEPT ![r].pc = "returned", ![r].outcome = outcome,
                            ![r].failN = @ + FailureNotices(outcome)]
    /\ isProcessing' = LockAfterExit(outcome)
    /\ microq' = Append(microq, r)

\* l.230-233: an exception thrown by a step other than the two awaited calls
\* is caught by the outer catch, which notifies and returns null.
ExitUnexpectedUncaught(r) ==
    /\ runs' = [runs EXCEPT ![r].pc = "returned", ![r].outcome = "Unexpected",
                            ![r].threw = TRUE]
    /\ isProcessing' = LockAfterExit("Unexpected")
    /\ microq' = Append(microq, r)
ExitUnexpected(r) == Exit(r, "Unexpected")

\* l.176-201: precondition checks, then the call of fetchTranscript.
CheckPreconditions(r) ==
    /\ runs[r].pc = "acquired"
    /\ LET pre == Precondition(settings, provider) IN
       IF pre # "ok"
       THEN Exit(r, pre)
       ELSE /\ runs' = [runs EXCEPT ![r].pc = "fetching", ![r].chk = provider,
                                    ![r].trace = Append(@, "fetch")]
            /\ UNCHANGED <<isProcessing, microq>>
    /\ last' = "none"
    /\ UNCHANGED <<loaded, settings, provider, conts, timers, modals, docs>>

\* l.201-216: fetchTranscript resolved. The thumbnail URL and the prompt are
\* built (l.206-211; a malformed transcript makes these throw), then
\* this.provider.summarizeVideo is called on the provider held at that moment.
FetchReturn(r) ==
    /\ HostTurn
    /\ runs[r].pc = "fetching"
    /\ \/ /\ \E t \in Transcripts :
                runs' = [runs EXCEPT ![r].pc = "summarizing", ![r].used = provider,
                                     ![r].transcript = t,
                                     ![r].trace = @ \o <<"prompt", "provider">>]
          /\ UNCHANGED <<isProcessing, microq>>
       \/ ExitUnexpected(r)
    /\ last' = "none"
    /\ UNCHANGED <<loaded, settings, provider, conts, timers, modals, docs>>

\* l.202-205: fetchTranscript rejected; notice, return null.
FetchFailFallsThrough(r) ==
    /\ HostTurn
    /\ runs[r].pc = "fetching"
    /\ runs' = [runs EXCEPT ![r].pc = "summarizing", ![r].used = provider,
                            ![r].outcome = "TranscriptFailure", ![r].failN = @ + 1,
                            ![r].trace = @ \o <<"prompt", "provider">>]
    /\ last' = "none"
    /\ UNCHANGED <<isProcessing, microq>>
    /\ UNCHANGED <<loaded, settings, provider, conts, timers, modals, docs>>
FetchFail(r) ==
    /\ HostTurn
    /\ runs[r].pc = "fetching"
    /\ Exit(r, "TranscriptFailure")
    /\ last' = "none"
    /\ UNCHANGED <<loaded, settings, provider, conts, timers, modals, docs>>

\* l.216-229: summarizeVideo resolved; generateSummary formats the document
\* (a summary value that cannot be converted to a string makes it throw).
ProviderReturn(r) ==
    /\ HostTurn
    /\ runs[r].pc = "summarizing"
    /\ \/ /\ \E summary \in Summaries :
                runs' = [runs EXCEPT ![r].pc = "returned", ![r].outcome = "Success",
                                     ![r].trace = Append(@, "format"),
                                     ![r].content = GenerateSummary(runs[r].transcript,
                                                        ThumbnailUrl, Url, summary)]
          /\ isProcessing' = LockAfterExit("Success")
          /\ microq' = Append(microq, r)
       \/ ExitUnexpected(r)
    /\ last' = "none"
    /\ UNCHANGED <<loaded, settings, provider, conts, timers, modals, docs>>

\* l.217-221: summarizeVideo rejected; notice, return null.
ProviderFail(r) ==
    /\ HostTurn
    /\ runs[r].pc = "summarizing"
    /\ Exit(r, "ProviderFailure")
    /\ last' = "none"
    /\ UNCHANGED <<loaded, settings, provider, conts, timers, modals, docs>>

----------------------------------------------------------------------------
\* Startup and settings.

\* l.27-43: onload. initializeServices reads the stored settings s; when
\* createProvider throws, the catch of l.40 notifies and neither the commands
\* nor the event listeners are registered.
OnLoad(s, created) ==
    /\ loaded = "new"
    /\ settings' = s
    /\ provider' = InitializeServices(provider, s, created)
    /\ loaded' = IF s.selected # NoModel /\ ~created THEN "failed" ELSE "ready"
    /\ last' = "none"
    /\ UNCHANGED <<isProcessing, runs, conts, microq, timers, modals, docs>>

\* l.60-63: saveData stores the settings and runs initializeServices again.
SaveData(s, created) ==
    /\ loaded = "ready"
    /\ HostTurn
    /\ settings' = s
    /\ provider' = InitializeServices(provider, s, created)
    /\ last' = "none"
    /\ UNCHANGED <<loaded, isProcessing, runs, conts, microq, timers, modals, docs>>

----------------------------------------------------------------------------
\* Triggers.

\* l.102-109: the branch the command takes on the trimmed selection: a valid
\* reference is summarized, any other non-empty text is answered with the
\* notice 'Selected text is not a valid YouTube URL', an empty selection opens
\* the modal.
SelectionBranchPromptsOtherwise(sel) ==
    IF sel = "youtube" THEN "summarize" ELSE "modal"
SelectionBranch(sel) ==
    IF sel = "youtube" THEN "summarize"
    ELSE IF sel # "empty" THEN "notice"
    ELSE "modal"

\* The observer's label of a command invoked on selection sel.
CommandSeen == [youtube |-> "cmd-youtube", other |-> "cmd-other", empty |-> "cmd-empty"]

\* l.99-118 (and the identical l.125-144): the command's editorCallback; sel
\* is the kind of the trimmed selection.
Command(sel) ==
    /\ loaded = "ready"
    /\ HostTurn
    /\ \/ /\ SelectionBranch(sel) = "summarize"   \* l.102-106
          /\ CanStart
          /\ StartRun("Command", NoFile)
          /\ UNCHANGED modals
       \/ /\ SelectionBranch(sel) = "notice"      \* l.107-108
          /\ UNCHANGED <<runs, isProcessing, microq, modals>>
       \/ /\ SelectionBranch(sel) = "modal"       \* l.109-113
          /\ CanStart
          /\ modals' = modals + 1
          /\ UNCHANGED <<runs, isProcessing, microq>>
    /\ last' = CommandSeen[sel]
    /\ UNCHANGED <<loaded, settings, provider, conts, timers, docs>>

\* l.110-112: the modal's callback, called with the URL the user entered.
ModalSubmit ==
    /\ HostTurn
    /\ modals > 0
    /\ modals' = modals - 1
    /\ StartRun("Command", NoFile)
    /\ last' = "none"
    /\ UNCHANGED <<loaded, settings, provider, conts, timers, docs>>

\* l.280-290: handlePaste; text is the kind of the pasted text, enabled the
\* value of getAutoSummarizePastedUrls.
HandlePaste(text, enabled) ==
    /\ loaded = "ready"
    /\ HostTurn
    /\ \/ /\ ~enabled                           \* l.281
          /\ UNCHANGED timers
       \/ /\ enabled
          /\ text # "youtube"                    \* l.284
          /\ UNCHANGED timers
       \/ /\ enabled
          /\ text = "youtube"                    \* l.286-288
          /\ CanStart
          /\ timers' = Append(timers, isProcessing)
    /\ last' = "none"
    /\ UNCHANGED <<loaded, settings, provider, isProcessing, runs, conts, microq,
                   modals, docs>>

\* l.286-288: the deferred callback of handlePaste; the observer notes
\* whether the lock was held when the paste arrived.
TimerFire ==
    /\ HostTurn
    /\ timers # <<>>
    /\ timers' = Tail(timers)
    /\ StartRun("Paste", NoFile)
    /\ last' = IF Head(timers) THEN "fired-pasted-busy" ELSE "fired-pasted-idle"
    /\ UNCHANGED <<loaded, settings, provider, conts, modals, docs>>

\* l.254-264: handleFileChange up to the call of processVideoSummarization;
\* enabled is the value of getAutoSummarizeWebclips.
HandleFileChange(f, enabled) ==
    /\ loaded = "ready"
    /\ HostTurn
    /\ \/ /\ ~enabled                           \* l.256
          /\ last' = "none"
          /\ UNCHANGED <<runs, isProcessing, microq>>
       \/ /\ enabled
          /\ DocSource[f] # "youtube"            \* l.261
          /\ last' = "none"
          /\ UNCHANGED <<runs, isProcessing, microq>>
       \/ /\ enabled
          /\ DocSource[f] = "youtube"
          /\ IsAlreadySummarized(f)              \* l.262
          /\ last' = "skip-summarized"
          /\ UNCHANGED <<runs, isProcessing, microq>>
       \/ /\ enabled
          /\ DocSource[f] = "youtube"
          /\ ~IsAlreadySummarized(f)
          /\ CanStart
          /\ docs[f].appended < MaxAppends
          /\ StartRun("AutoDetect", f)           \* l.264
          /\ last' = "none"
    /\ UNCHANGED <<loaded, settings, provider, conts, timers, modals, docs>>

----------------------------------------------------------------------------
\* Consumers of the result.

\* l.155-160 (summarizeVideo) and l.264-266 (handleFileChange): the caller's
\* continuation after await processVideoSummarization.
Deliver(r) ==
    /\ \A q \in Slots : runs[q].pc # "acquired"
    /\ microq # <<>>
    /\ Head(microq) = r
    /\ microq' = Tail(microq)
    /\ runs' = [runs EXCEPT ![r] = Free]
    /\ LET run == runs[r] IN
       IF run.threw
       THEN \* the rejection reaches the handler: l.114-117 notifies for the
            \* command; the timer callback and handleFileChange have no catch
            /\ last' = "uncaught"
            /\ UNCHANGED conts
       ELSE IF ~HasContent(run.outcome)
       THEN /\ last' = "dropped"
            /\ UNCHANGED conts
       ELSE IF run.kind = "AutoDetect"
       THEN /\ conts' = [conts EXCEPT ![run.file].appending = @ + 1]   \* l.266 called
            /\ last' = "none"
       ELSE /\ last' = "inserted"                                      \* l.157-158
            /\ UNCHANGED conts
    /\ UNCHANGED <<loaded, settings, provider, isProcessing, timers, modals, docs>>

\* l.266-267: vault.append resolved, processFrontMatter is called.
AppendDoneSkipsMarker(f) ==
    /\ HostTurn
    /\ conts[f].appending > 0
    /\ docs' = [docs EXCEPT ![f].appended = @ + 1]
    /\ conts' = [conts EXCEPT ![f].appending = @ - 1]
    /\ last' = "appended"
    /\ UNCHANGED <<loaded, settings, provider, isProcessing, runs, microq, timers, modals>>
AppendDone(f) ==
    /\ HostTurn
    /\ conts[f].appending > 0
    /\ docs' = [docs EXCEPT ![f].appended = @ + 1]
    /\ conts' = [conts EXCEPT ![f].appending = @ - 1, ![f].marking = @ + 1]
    /\ last' = "appended"
    /\ UNCHANGED <<loaded, settings, provider, isProcessing, runs, microq, timers, modals>>

\* l.266: vault.append rejected; handleFileChange ends with that rejection.
AppendFail(f) ==
    /\ HostTurn
    /\ conts[f].appending > 0
    /\ conts' = [conts EXCEPT ![f].appending = @ - 1]
    /\ last' = "none"
    /\ UNCHANGED <<loaded, settings, provider, isProcessing, runs, microq, timers,
                   modals, docs>>

\* l.267-270: processFrontMatter resolved, the marker is set; success notice.
MarkDone(f) ==
    /\ HostTurn
    /\ conts[f].marking > 0
    /\ docs' = [docs EXCEPT ![f].summarized = TRUE]
    /\ conts' = [conts EXCEPT ![f].marking = @ - 1]
    /\ last' = "marked"
    /\ UNCHANGED <<loaded, settings, provider, isProcessing, runs, microq, timers, modals>>

\* l.267: processFrontMatter rejected; handleFileChange ends with that rejection.
MarkFail(f) ==
    /\ HostTurn
    /\ conts[f].marking > 0
    /\ conts' = [conts EXCEPT ![f].marking = @ - 1]
    /\ last' = "none"
    /\ UNCHANGED <<loaded, settings, provider, isProcessing, runs, microq, timers,
                   modals, docs>>

----------------------------------------------------------------------------
\* l.17-22: the state after construction. The web clip may already carry the
\* marker from an earlier session.
Init ==
    /\ loaded = "new"
    /\ settings = [selected |-> NoModel, hasKey |-> FALSE]
    /\ provider = NoProvider
    /\ isProcessing = FALSE
    /\ runs = [r \in Slots |-> Free]
    /\ conts = [f \in Files |-> [appending |-> 0, marking |-> 0]]
    /\ microq = <<>>
    /\ timers = <<>>
    /\ modals = 0
    /\ \E m \in BOOLEAN :
          docs = [f \in Files |-> [summarized |-> (m /\ f = "f1"), appended |-> 0]]
    /\ last = "none"

Next ==
    \/ \E s \in SettingsSpace, created \in BOOLEAN : OnLoad(s, created)
    \/ \E s \in SettingsSpace, created \in BOOLEAN : SaveData(s, created)
    \/ \E sel \in {"youtube", "other", "empty"} : Command(sel)
    \/ ModalSubmit
    \/ \E text \in {"youtube", "other"}, enabled \in BOOLEAN : HandlePaste(text, enabled)
    \/ TimerFire
    \/ \E f \in Files, enabled \in BOOLEAN : HandleFileChange(f, enabled)
    \/ \E r \in Slots : CheckPreconditions(r)
    \/ \E r \in Slots : FetchReturn(r)
    \/ \E r \in Slots : FetchFail(r)
    \/ \E r \in Slots : ProviderReturn(r)
    \/ \E r \in Slots : ProviderFail(r)
    \/ \E r \in Slots : Deliver(r)
    \/ \E f \in Files : AppendDone(f)
    \/ \E f \in Files : AppendFail(f)
    \/ \E f \in Files : MarkDone(f)
    \/ \E f \in Files : MarkFail(f)

Spec == Init /\ [][Next]_vars

\* The event loop runs every queued continuation (the synchronous rest of an
\* entry, the microtasks), and a network call that returns or fails has its
\* completion dispatched at some host turn.
FairSpec ==
    /\ Spec
    /\ WF_vars(\E r \in Slots : CheckPreconditions(r) \/ Deliver(r))
    /\ SF_vars(\E r \in Slots : \/ FetchReturn(r) \/ FetchFail(r)
                               \/ ProviderReturn(r) \/ ProviderFail(r))

----------------------------------------------------------------------------
\* Properties.

\* l.158 and l.270: the last step showed a success notice ('Summary
\* generated successfully!' after replaceSelection, 'Auto-summary generated
\* for webclip!' after processFrontMatter).
SuccessNotice == last \in {"inserted", "marked"}

IsPrefix(t, u) == Len(t) <= Len(u) /\ \A i \in 1..Len(t) : t[i] = u[i]

Started(r) == runs[r].pc = "free" /\ runs'[r].pc # "free"

\* C1: at most one run is between acquiring and releasing the lock, and a
\* request that enters while a run holds the lock does not become a second
\* holder: it is rejected with AlreadyProcessing and the holder is unchanged.
C1_MutualExclusion ==
    [][ /\ Cardinality(Holders') <= 1
        /\ \A r \in Slots :
              (Started(r) /\ Holders # {}) =>
                 /\ runs'[r].outcome = "AlreadyProcessing"
                 /\ Holders' = Holders ]_vars

C1_Witness ==
    \E r, q \in Slots :
        /\ runs[r].pc = "summarizing" /\ runs[r].kind = "Command"
        /\ runs[q].pc = "returned" /\ runs[q].outcome = "AlreadyProcessing"
        /\ runs[q].kind = "Command"

\* C2: whenever no run is between acquire and release the lock is false, for
\* every exit path; and a held lock is always released eventually.
C2_GuaranteedRelease ==
    /\ [](Holders = {} => ~isProcessing)
    /\ (isProcessing ~> ~isProcessing)

C2_Witness ==
    \E r \in Slots :
        /\ runs[r].pc = "returned" /\ runs[r].outcome = "Unexpected"
        /\ runs[r].trace = <<"fetch", "prompt", "provider">>
        /\ ~isProcessing

\* C3: a request that enters while the lock is held is rejected at once, the
\* lock stays held, no other run is touched, and the rejected request has made
\* no transcript fetch and no provider call.
C3_RejectWhileRunning ==
    [][ \A r \in Slots :
          (Started(r) /\ isProcessing) =>
             /\ runs'[r].pc = "returned"
             /\ runs'[r].outcome = "AlreadyProcessing"
             /\ runs'[r].trace = <<>>
             /\ isProcessing'
             /\ \A q \in Slots \ {r} : runs'[q] = runs[q] ]_vars

C3_Witness ==
    \E r, q \in Slots :
        /\ runs[r].pc = "fetching" /\ runs[r].kind = "AutoDetect"
        /\ runs[q].pc = "returned" /\ runs[q].outcome = "AlreadyProcessing"
        /\ runs[q].kind = "Paste"
        /\ isProcessing

\* C4 as stated: in a run whose precondition check fails the lock is never
\* true.
C4_NeverAcquired ==
    \A r \in Slots :
        (/\ runs[r].pc = "acquired"
         /\ (settings.selected = NoModel \/ ~settings.hasKey \/ provider = NoProvider))
        => ~isProcessing

\* C4 amended: a run entered while idle sets the lock before it checks the
\* preconditions; when one of them fails, the same synchronous step ends the
\* run with the matching ConfigurationError, without any fetch or provider
\* call, and with the lock released again.
C4_FailFast ==
    [][ \A r \in Slots :
          runs[r].pc = "acquired" =>
             /\ isProcessing
             /\ runs'[r].pc # "acquired"
             /\ (settings.selected = NoModel \/ ~settings.hasKey \/ provider = NoProvider) =>
                   /\ runs'[r].pc = "returned"
                   /\ runs'[r].outcome \in ConfigErrors
                   /\ runs'[r].trace = <<>>
                   /\ ~isProcessing' ]_vars

C4_Witness ==
    \E r \in Slots :
        /\ runs[r].pc = "returned" /\ runs[r].outcome = "ProviderUninitialized"
        /\ runs[r].trace = <<>>
        /\ ~isProcessing

\* C5: a run that ended in a failure or a rejection never mutates a document:
\* its delivery drops it, and every insertion, append and marker update is the
\* step of a run that succeeded.
C5_AllOrNothing ==
    [][ /\ \A r \in Slots :
              (runs[r].outcome \in Failures /\ runs'[r] # runs[r]) =>
                 /\ runs'[r] = Free
                 /\ last' = "dropped"
                 /\ docs' = docs
        /\ (Suspended' > Suspended \/ last' = "inserted") =>
              \E r \in Slots : /\ runs[r].outcome = "Success"
                               /\ runs[r].pc = "returned"
                               /\ runs'[r] = Free
        /\ docs' # docs =>
              \E f \in Files : \/ conts[f].appending > conts'[f].appending
                               \/ conts[f].marking > conts'[f].marking ]_vars

C5_Witness ==
    /\ last = "dropped"
    /\ \A f \in Files : docs[f].appended = 0 /\ ~docs[f].summarized
    /\ Live = {} /\ Suspended = 0

\* C6: the steps of a run are a prefix of fetch, prompt, provider, format; a
\* failed fetch ends the run before the provider is invoked, a failed provider
\* call ends it before anything is formatted, and only a run that formatted a
\* result returns success.
C6_StepOrder ==
    \A r \in Slots :
        /\ IsPrefix(runs[r].trace, Pipeline)
        /\ runs[r].outcome = "TranscriptFailure" =>
              runs[r].trace = <<"fetch">> /\ runs[r].pc = "returned"
        /\ runs[r].outcome = "ProviderFailure" =>
              runs[r].trace = <<"fetch", "prompt", "provider">> /\ runs[r].pc = "returned"
        /\ (runs[r].outcome = "Success" /\ runs[r].pc = "returned") =>
              runs[r].trace = Pipeline
        /\ runs[r].pc = "fetching" => runs[r].trace = <<"fetch">>
        /\ runs[r].pc = "summarizing" => runs[r].trace = <<"fetch", "prompt", "provider">>

C6_Witness ==
    \E r \in Slots :
        /\ runs[r].outcome = "ProviderFailure" /\ runs[r].pc = "returned"
        /\ conts["f1"].marking = 1

\* C7: a metadata change of a document whose front-matter carries the marker
\* starts no run and changes nothing, whether or not the lock is held.
C7_AutoDetectIdempotent ==
    [][ /\ last' = "skip-summarized" =>
              UNCHANGED <<loaded, settings, provider, isProcessing, runs, conts,
                          microq, timers, modals, docs>>
        /\ \A r \in Slots :
              (Started(r) /\ runs'[r].kind = "AutoDetect") =>
                 ~docs[runs'[r].file].summarized ]_vars

C7_Witness ==
    /\ last = "skip-summarized"
    /\ isProcessing
    /\ docs["f1"].summarized /\ docs["f1"].appended = 1

\* C8: no failure of a pipeline step leaves processVideoSummarization as an
\* exception: every failing run returns a failure result to its caller.
C8_FailuresCaught ==
    /\ last # "uncaught"
    /\ \A r \in Slots :
          /\ ~runs[r].threw
          /\ runs[r].outcome \in Failures => runs[r].pc = "returned" /\ runs[r].failN = 1

C8_Witness ==
    \E r \in Slots :
        /\ runs[r].pc = "returned" /\ runs[r].outcome = "Unexpected"
        /\ runs[r].trace = <<"fetch">>
        /\ runs[r].kind = "Paste"

\* C9: a rejected request is dropped: the only step it ever takes discards it,
\* scheduling nothing (no timer, no modal, no other run), leaving the lock
\* and the documents as they are.
C9_NoQueueing ==
    [][ \A r \in Slots :
          runs[r].outcome = "AlreadyProcessing" =>
             \/ runs'[r] = runs[r]
             \/ /\ runs'[r] = Free
                /\ last' = "dropped"
                /\ \A q \in Slots \ {r} : runs'[q] = runs[q]
                /\ UNCHANGED <<docs, conts, timers, modals, isProcessing>> ]_vars

C9_Witness ==
    \E r \in Slots :
        /\ last = "dropped"
        /\ runs[r].pc = "summarizing"
        /\ Live = {r}
        /\ timers = <<>> /\ modals = 0

\* C10: a run that went through the pipeline has released the lock when its
\* result is handed to the consumer: the lock is false while the result waits
\* to be delivered and when it is inserted, and an append or marker update is
\* made by a run past its release (the lock, if held then, is held by
\* another run).
C10_ReleaseBeforeDelivery ==
    [][ /\ \A r \in Slots :
              (runs[r].pc = "returned" /\ runs[r].outcome # "AlreadyProcessing") =>
                 ~isProcessing
        /\ last' = "inserted" => ~isProcessing /\ ~isProcessing'
        /\ Suspended' > Suspended =>
              \E r \in Slots : runs[r].pc = "returned" /\ runs'[r] = Free
        /\ docs' # docs =>
              /\ \E f \in Files : \/ conts[f].appending > conts'[f].appending
                               \/ conts[f].marking > conts'[f].marking
              /\ isProcessing => Holders # {} ]_vars

C10_Witness ==
    /\ last = "marked"
    /\ ~isProcessing
    /\ docs["f1"].appended = 1 /\ docs["f1"].summarized
    /\ Live = {} /\ Suspended = 0

\* C11 as stated: a command invoked on a valid selection starts a run on it,
\* and in every other case (empty selection, or a selection that is not a
\* valid reference) a prompt is opened.
C11_PromptOtherwise ==
    [][ /\ last' = "cmd-youtube" =>
              /\ \E r \in Slots : Started(r) /\ runs'[r].kind = "Command"
              /\ modals' = modals
        /\ last' \in {"cmd-other", "cmd-empty"} => modals' = modals + 1 ]_vars

\* C11 amended: a command invoked on a valid selection starts a run on it and
\* opens no prompt; on an empty selection it opens the prompt and starts no
\* run; on a non-empty selection that is not a valid reference it only shows
\* a notice: no prompt is opened, no run is started, nothing else changes.
C11_SelectionOrPrompt ==
    [][ /\ last' = "cmd-youtube" =>
              /\ \E r \in Slots : Started(r) /\ runs'[r].kind = "Command"
              /\ modals' = modals
        /\ last' = "cmd-empty" =>
              /\ modals' = modals + 1
              /\ UNCHANGED <<runs, isProcessing, microq>>
        /\ last' = "cmd-other" =>
              UNCHANGED <<loaded, settings, provider, isProcessing, runs, conts,
                          microq, timers, modals, docs>> ]_vars

C11_Witness ==
    /\ last = "cmd-other"
    /\ modals = 0
    /\ Live = {} /\ Suspended = 0 /\ timers = <<>>
    /\ loaded = "ready"

\* C12: the marker of a document is set only as the step that follows the
\* append of a successful automatic run on that document; every append is
\* the result of such a run and is followed by the marker update; a failed or
\* rejected automatic run sets no marker; a marker once set stays set, so a
\* document whose delivery completed carries it.
C12_AppendThenMark ==
    [][ \A f \in Files :
          /\ conts'[f].appending > conts[f].appending =>
                \E r \in Slots : /\ runs[r].kind = "AutoDetect" /\ runs[r].file = f
                                 /\ runs[r].outcome = "Success" /\ runs'[r] = Free
                                 /\ docs' = docs
          /\ docs'[f].appended # docs[f].appended =>
                /\ docs'[f].appended = docs[f].appended + 1
                /\ conts'[f].appending = conts[f].appending - 1
                /\ conts'[f].marking = conts[f].marking + 1
                /\ docs'[f].summarized = docs[f].summarized
          /\ conts'[f].marking > conts[f].marking =>
                docs'[f].appended = docs[f].appended + 1
          /\ docs'[f].summarized # docs[f].summarized =>
                /\ docs'[f].summarized
                /\ conts'[f].marking = conts[f].marking - 1
                /\ docs[f].appended >= 1
                /\ last' = "marked"
          /\ docs[f].summarized => docs'[f].summarized
          /\ \A r \in Slots :
                (runs[r].kind = "AutoDetect" /\ runs[r].file = f
                    /\ runs[r].outcome \in Failures /\ runs'[r] # runs[r]) =>
                   /\ conts' = conts
                   /\ docs' = docs ]_vars

C12_Witness ==
    /\ last = "marked"
    /\ docs["f1"].summarized /\ docs["f1"].appended = 1
    /\ conts["f1"].appending = 0 /\ conts["f1"].marking = 0
    /\ \E r \in Slots : runs[r].pc = "fetching" /\ runs[r].kind = "Command"

\* C13: a run that failed or was rejected has shown exactly one failure
\* notice and its delivery shows no success notice; a run that is going well or
\* succeeded has shown no failure notice; a success notice is shown only by
\* the step that completes a delivery: the insertion of a successful run's
\* result, or the marker update that follows the append (never for a document
\* that was appended to but not marked).
C13_NoticeMatchesOutcome ==
    [][ /\ \A r \in Slots :
              /\ runs'[r].failN = (IF runs'[r].outcome \in Failures THEN 1 ELSE 0)
              /\ (runs[r].outcome \in Failures /\ runs'[r] # runs[r]) =>
                    /\ ~SuccessNotice'
                    /\ docs' = docs /\ conts' = conts
        /\ last' = "inserted" =>
              \E r \in Slots : /\ runs[r].pc = "returned" /\ runs[r].outcome = "Success"
                               /\ runs[r].failN = 0
                               /\ runs[r].kind # "AutoDetect"
                               /\ runs'[r] = Free
        /\ last' = "marked" =>
              \E f \in Files : /\ conts'[f].marking = conts[f].marking - 1
                               /\ docs[f].appended >= 1
                               /\ docs'[f].summarized
        /\ (\E f \in Files : docs'[f].appended > docs[f].appended) => ~SuccessNotice' ]_vars

C13_Witness ==
    \E r \in Slots :
        /\ runs[r].pc = "returned" /\ runs[r].outcome = "ProviderFailure"
        /\ runs[r].kind = "AutoDetect" /\ runs[r].failN = 1
        /\ ~docs[runs[r].file].summarized /\ docs[runs[r].file].appended = 0

\* C14: a run makes its first pipeline step (the transcript fetch) only in the
\* step that found a model selected, its credential present and a provider
\* held; every later step, the provider call included, belongs to a run that
\* passed that check; a run ended by a ConfigurationError has fetched nothing
\* and invoked no provider.
C14_CheckedBeforeUse ==
    [][ \A r \in Slots :
          /\ Len(runs'[r].trace) > Len(runs[r].trace) =>
                IF runs[r].pc = "acquired"
                THEN /\ settings.selected # NoModel
                     /\ settings.hasKey
                     /\ provider # NoProvider
                     /\ runs'[r].chk = provider
                     /\ runs'[r].trace = <<"fetch">>
                ELSE /\ runs[r].pc \in {"fetching", "summarizing"}
                     /\ runs[r].chk # NoProvider
          /\ runs'[r].trace # <<>> => runs'[r].chk # NoProvider
          /\ runs'[r].pc = "summarizing" => runs'[r].used # NoProvider
          /\ runs'[r].outcome \in ConfigErrors =>
                /\ runs'[r].trace = <<>>
                /\ runs'[r].chk = NoProvider /\ runs'[r].used = NoProvider ]_vars

C14_Witness ==
    \E r \in Slots :
        /\ runs[r].pc = "returned" /\ runs[r].outcome = "MissingApiKey"
        /\ runs[r].kind = "AutoDetect"
        /\ runs[r].trace = <<>>
        /\ provider # NoProvider

\* The lines of a text: the pieces between line feeds.
RECURSIVE SplitLines(_)
SplitLines(text) ==
    IF \A i \in 1..Len(text) : text[i] # NL THEN <<text>>
    ELSE LET i == CHOOSE j \in 1..Len(text) :
                     text[j] = NL /\ \A k \in 1..(j - 1) : text[k] # NL
         IN <<SubSeq(text, 1, i - 1)>> \o SplitLines(SubSeq(text, i + 1, Len(text)))

\* C15: the document a successful run returns is, line by line: the heading
\* '# ' + title, an empty line, the thumbnail line, an empty line, the
\* author/link line, an empty line, then the summary text unmodified.
C15_BlankLineBetweenSections ==
    \A r \in Slots :
        (runs[r].pc = "returned" /\ runs[r].outcome = "Success") =>
           \E summary \in Summaries :
               SplitLines(runs[r].content) =
                  << <<"# ", runs[r].transcript.title>>,
                     <<>>,
                     <<"![Thumbnail](", ThumbnailUrl, ")">>,
                     <<>>,
                     <<"U+1F464 [", runs[r].transcript.author, "](",
                       runs[r].transcript.channelUrl, ")",
                       "  U+1F517 [Watch video](", Url, ")">>,
                     <<>> >> \o SplitLines(summary)

\* C16: handlePaste schedules the callback without reading or writing the
\* lock and without touching any run; the idle check is made by the callback
\* when it fires, on the lock as it is then, whatever it was when the paste
\* arrived: the callback starts a run if the lock is free then and is rejected
\* if it is held then.
C16_DeferredIdleCheck ==
    [][ /\ Len(timers') > Len(timers) =>
              /\ timers' = Append(timers, isProcessing)
              /\ UNCHANGED <<isProcessing, runs, microq, conts, docs, modals>>
        /\ Len(timers') < Len(timers) =>
              /\ timers' = Tail(timers)
              /\ last' = (IF Head(timers) THEN "fired-pasted-busy" ELSE "fired-pasted-idle")
              /\ \E r \in Slots :
                    /\ Started(r)
                    /\ runs'[r].kind = "Paste"
                    /\ IF isProcessing
                       THEN /\ runs'[r].outcome = "AlreadyProcessing"
                            /\ isProcessing'
                            /\ Holders' = Holders
                       ELSE /\ runs'[r].pc = "acquired"
                            /\ isProcessing'
                            /\ Holders' = {r} ]_vars

\* A paste that arrived while idle was rejected, because its callback fired
\* during the run of a paste that had arrived earlier.
C16_Witness ==
    \E r, q \in Slots :
        /\ last = "fired-pasted-idle"
        /\ runs[r].kind = "Paste" /\ runs[r].pc = "returned"
        /\ runs[r].outcome = "AlreadyProcessing"
        /\ runs[q].kind = "Paste" /\ runs[q].pc = "fetching"

\* A paste that arrived during a run started a run of its own, because its
\* callback fired after that run had finished.
C16_LatePasteStarts ==
    \E r \in Slots :
        /\ last = "fired-pasted-busy"
        /\ runs[r].kind = "Paste" /\ runs[r].pc = "acquired"
        /\ Live = {r}

\* C17: no document has more than one automatic summary appended to it,
\* whatever change events arrive while an earlier automatic run on it is
\* suspended at a network call or between its append and its marker update.
C17_AtMostOnce ==
    \A f \in Files : docs[f].appended <= 1

\* C18: the provider a run invokes is the instance that passed the run's
\* precondition check, also when settings are saved while the run is
\* suspended at the transcript fetch.
C18_ProviderStable ==
    \A r \in Slots :
        runs[r].pc = "summarizing" => runs[r].used = runs[r].chk

\* C19: after onload and after every save, a provider that is held is the
\* one constructed from the currently selected model, and none is held when
\* no model is selected.
C19_ProviderMatchesSelection ==
    provider # NoProvider => provider = settings.selected

====
